---- MODULE Spec2Model ----
(***************************************************************************)
(* Model of src/bot.py: the profile store, the pinned-message ledger, the  *)
(* directory renderer (build_directory_messages), the pin reconciler       *)
(* (update_pinned_directory) and the handlers that trigger it.             *)
(*                                                                         *)
(* Every `await` of the source is one step of the model: the transport     *)
(* call returns one of its outcomes and the code runs on to the next       *)
(* await (or to the end of the handler).                                   *)
(***************************************************************************)
EXTENDS Integers, Sequences, FiniteSets, TLC

VARIABLES
    ALLOWED_CHAT_ID,   \* configuration, read once from the environment (0 = unset)
    profiles,          \* table profiles, in added_at order (a row's added_at is
                       \* kept as its place in that order)
    pinned_messages,   \* table pinned_messages, in id order (id = index)
    channel,           \* the messages of the chats: message_id -> [chat_id, text]
    pins,              \* message ids for which pin_chat_message succeeded
    web_json,          \* content of data/directorio.json
    h,                 \* per task: position and locals of the running handler
    in_sync,           \* history: the chats whose last update_pinned_directory
                       \* ran to its end with every transport call succeeding
                       \* and left a current ledger row, the table profiles
                       \* being unchanged since
    partial            \* history: the chats whose last update_pinned_directory
                       \* sent messages and pinned none

vars == <<ALLOWED_CHAT_ID, profiles, pinned_messages, channel, pins, web_json, h,
          in_sync, partial>>

(***************************************************************************)
(* Bounds of the model.                                                    *)
(***************************************************************************)
MaxMsgs == 3          \* send_message succeeds at most this many times in a run
LongLen == 3700       \* length of the long custom name an admin may set
HugeLen == 3900       \* length of the longest custom name a /renombrar carries
MaxRows == 3          \* rows of a profile list handed to the renderer

Tasks == {1, 2}       \* handler tasks; the application runs updates one at a time, on task 1
Users == {1, 2}
Chats == {1, 2}       \* chat 1 is the group, chat 2 any other chat
Npubs == {"npub1a", "npub1b"}
None == "<None>"
LongName == "<long>"
HugeName == "<huge>"

(***************************************************************************)
(* Program constants: lengths of the literals of build_directory_messages. *)
(***************************************************************************)
MAX_MSG_LENGTH == 4000
HEADER_LEN == 37        \* len(header), primary
CONT_HEADER_LEN == 42   \* len(header), continuation
FOOTER_FIXED_LEN == 49  \* len(footer) without the digits of count
CHAIN_NOTE_LEN == 47    \* len(chain_note)
LINE_FIXED_LEN == 119   \* len(line) without the digits of idx and the name
EMPTY_MSG_LEN == 177    \* len of the "no profiles" message

\* what Telegram reports about the sender of an update
Username(u) == IF u = 1 THEN "alice" ELSE None
FullName(u) == IF u = 1 THEN "Alice A" ELSE "Bob"

StrLen(s) ==
    IF s = LongName THEN LongLen
    ELSE IF s = HugeName THEN HugeLen
    ELSE Len(s)

Digits(n) == IF n < 10 THEN 1 ELSE IF n < 100 THEN 2 ELSE 3

Truthy(s) == s # None /\ s # ""

(***************************************************************************)
(* Display names                                                           *)
(***************************************************************************)
\* faulty variant: the username is looked at before custom_name
get_display_name_username_first(profile) ==
    IF Truthy(profile.telegram_username) THEN "@" \o profile.telegram_username
    ELSE IF Truthy(profile.custom_name) THEN profile.custom_name
    ELSE IF Truthy(profile.telegram_name) THEN profile.telegram_name
    ELSE "Anónimo"

get_display_name(profile) ==
    IF Truthy(profile.custom_name) THEN profile.custom_name
    ELSE IF Truthy(profile.telegram_username) THEN "@" \o profile.telegram_username
    ELSE IF Truthy(profile.telegram_name) THEN profile.telegram_name
    ELSE "Anónimo"

get_display_name_clean(profile) ==
    IF Truthy(profile.custom_name) THEN profile.custom_name
    ELSE IF Truthy(profile.telegram_username) THEN profile.telegram_username
    ELSE IF Truthy(profile.telegram_name) THEN profile.telegram_name
    ELSE "Anónimo"

(***************************************************************************)
(* Profile store                                                           *)
(***************************************************************************)
SelectIdx(s, Test(_)) == {i \in 1..Len(s) : Test(s[i])}

Min(S) == CHOOSE x \in S : \A y \in S : x <= y

NpubTaken(P, npub) == \E i \in 1..Len(P) : P[i].npub = npub

\* faulty variant: the column npub is no PRIMARY KEY
add_profile_ok_no_key(P, npub) == TRUE

\* the INSERT of add_profile; the PRIMARY KEY rejects a known npub
add_profile_ok(P, npub) == ~NpubTaken(P, npub)

add_profile(P, npub, user_id, username, name) ==
    IF add_profile_ok(P, npub)
    THEN Append(P, [npub |-> npub, telegram_user_id |-> user_id,
                    telegram_username |-> username, telegram_name |-> name,
                    web_consent |-> FALSE,
                    custom_name |-> None])
    ELSE P

remove_profile(P, user_id) ==
    SelectSeq(P, LAMBDA r : r.telegram_user_id # user_id)

\* faulty variant: the UPDATE misses its WHERE clause
set_web_consent_all_rows(P, user_id, consent) ==
    [i \in 1..Len(P) |-> [P[i] EXCEPT !.web_consent = consent]]

set_web_consent(P, user_id, consent) ==
    [i \in 1..Len(P) |->
        IF P[i].telegram_user_id = user_id
        THEN [P[i] EXCEPT !.web_consent = consent] ELSE P[i]]

set_custom_name_by_npub(P, npub, custom_name) ==
    [i \in 1..Len(P) |->
        IF P[i].npub = npub
        THEN [P[i] EXCEPT !.custom_name = custom_name] ELSE P[i]]

get_all_profiles(P) == P

\* faulty variant: the WHERE clause is missing
get_web_profiles_all(P) == P

get_web_profiles(P) == SelectSeq(P, LAMBDA r : r.web_consent)

\* index of the row of user_id, 0 when there is none
get_profile_by_user(P, user_id) ==
    LET S == SelectIdx(P, LAMBDA r : r.telegram_user_id = user_id)
    IN  IF S = {} THEN 0 ELSE Min(S)

\* UPDATE profiles SET npub = ? WHERE telegram_user_id = ? (handle_message)
\* raises IntegrityError when another row holds the npub
rebind_ok(P, npub, user_id) ==
    ~\E i \in 1..Len(P) : P[i].npub = npub /\ P[i].telegram_user_id # user_id

\* faulty variant: the row is deleted and inserted anew
rebind_as_reinsert(P, npub, user_id) ==
    LET old == P[get_profile_by_user(P, user_id)]
    IN  add_profile(remove_profile(P, user_id), npub, user_id,
                    old.telegram_username, old.telegram_name)

rebind(P, npub, user_id) ==
    [i \in 1..Len(P) |->
        IF P[i].telegram_user_id = user_id
        THEN [P[i] EXCEPT !.npub = npub] ELSE P[i]]

(***************************************************************************)
(* Pinned-message ledger                                                   *)
(***************************************************************************)
\* faulty variant: the UPDATE misses its WHERE clause
save_pinned_message_all_chats(L, chat_id, message_id, profile_count) ==
    Append([i \in 1..Len(L) |-> [L[i] EXCEPT !.is_current = FALSE]],
           [chat_id |-> chat_id, message_id |-> message_id,
            profile_count |-> profile_count, is_current |-> TRUE,
            created_at |-> Len(L) + 1])

\* faulty variant: the UPDATE is missing
save_pinned_message_no_update(L, chat_id, message_id, profile_count) ==
    Append(L,
           [chat_id |-> chat_id, message_id |-> message_id,
            profile_count |-> profile_count, is_current |-> TRUE,
            created_at |-> Len(L) + 1])

\* created_at: datetime.now(), as the rank of the row
save_pinned_message(L, chat_id, message_id, profile_count) ==
    Append([i \in 1..Len(L) |->
               IF L[i].chat_id = chat_id
               THEN [L[i] EXCEPT !.is_current = FALSE] ELSE L[i]],
           [chat_id |-> chat_id, message_id |-> message_id,
            profile_count |-> profile_count, is_current |-> TRUE,
            created_at |-> Len(L) + 1])

CurrentIdx(L, chat_id) ==
    SelectIdx(L, LAMBDA r : r.chat_id = chat_id /\ r.is_current)

\* faulty variant: the query finds no row
get_current_pinned_none(L, chat_id) == 0

\* message_id of the row fetchone() returns, 0 for None
get_current_pinned(L, chat_id) ==
    IF CurrentIdx(L, chat_id) = {} THEN 0
    ELSE L[Min(CurrentIdx(L, chat_id))].message_id

(***************************************************************************)
(* Directory renderer.  A message text is kept as its parts: the header,   *)
(* the profile lines, and what follows them (the chain note or the footer  *)
(* with the count).  The minute of the rendering is left out of the text:  *)
(* see EditOutcomes.                                                       *)
(***************************************************************************)
format_profile_line(idx, profile) ==
    [idx |-> idx, display |-> get_display_name(profile), npub |-> profile.npub]

LineLen(line) == LINE_FIXED_LEN + Digits(line.idx) + StrLen(line.display)

HeaderLen(header) == IF header = "primary" THEN HEADER_LEN ELSE CONT_HEADER_LEN

FooterLen(count) == FOOTER_FIXED_LEN + Digits(count)

RECURSIVE JoinLen(_)
\* len("\n".join(lines))
JoinLen(lines) ==
    IF Len(lines) = 0 THEN 0
    ELSE IF Len(lines) = 1 THEN LineLen(lines[1])
    ELSE LineLen(lines[1]) + 1 + JoinLen(Tail(lines))

EmptyDirectory ==
    [header |-> "primary", lines |-> <<>>, tail |-> "empty", count |-> 0]

\* len(msg)
MsgLen(msg) ==
    IF msg.tail = "empty" THEN EMPTY_MSG_LEN
    ELSE HeaderLen(msg.header) + JoinLen(msg.lines)
         + (IF msg.tail = "chain" THEN CHAIN_NOTE_LEN ELSE FooterLen(msg.count))

RECURSIVE PackLines(_, _, _, _, _, _)
\* faulty variant: the line that closes a message is not carried over
PackLines_drops_line(P, i, header, current_lines, current_length, messages) ==
    IF i > Len(P)
    THEN Append(messages, [header |-> header, lines |-> current_lines,
                           tail |-> "footer", count |-> Len(P)])
    ELSE LET line == format_profile_line(i, P[i])
             line_length == LineLen(line) + 1
         IN  IF current_length + line_length + FooterLen(Len(P)) + CHAIN_NOTE_LEN
                    > MAX_MSG_LENGTH
             THEN PackLines(P, i + 1, "cont", <<>>, HeaderLen(header),
                            Append(messages,
                                   [header |-> header, lines |-> current_lines,
                                    tail |-> "chain", count |-> 0]))
             ELSE PackLines(P, i + 1, header, Append(current_lines, line),
                            current_length + line_length, messages)

\* the for loop of build_directory_messages, from profile i on
PackLines(P, i, header, current_lines, current_length, messages) ==
    IF i > Len(P)
    THEN Append(messages, [header |-> header, lines |-> current_lines,
                           tail |-> "footer", count |-> Len(P)])
    ELSE LET line == format_profile_line(i, P[i])
             line_length == LineLen(line) + 1
         IN  IF current_length + line_length + FooterLen(Len(P)) + CHAIN_NOTE_LEN
                    > MAX_MSG_LENGTH
             THEN PackLines(P, i + 1, "cont", <<line>>,
                            HeaderLen(header) + line_length,
                            Append(messages,
                                   [header |-> header, lines |-> current_lines,
                                    tail |-> "chain", count |-> 0]))
             ELSE PackLines(P, i + 1, header, Append(current_lines, line),
                            current_length + line_length, messages)

\* faulty variant: the test `if not profiles` is missing
build_directory_messages_no_empty(P) ==
    PackLines(P, 1, "primary", <<>>, HEADER_LEN, <<>>)

build_directory_messages(P) ==
    IF Len(P) = 0 THEN <<EmptyDirectory>>
    ELSE PackLines(P, 1, "primary", <<>>, HEADER_LEN, <<>>)

(***************************************************************************)
(* Exporter                                                                *)
(***************************************************************************)
export_web_json(P) ==
    LET W == get_web_profiles(P)
    IN  [total_profiles |-> Len(W),
         profiles |-> [i \in 1..Len(W) |->
                          [npub |-> W[i].npub,
                           display_name |-> get_display_name_clean(W[i])]]]

(***************************************************************************)
(* Handler tasks                                                           *)
(***************************************************************************)
Idle ==
    [pc |-> "idle", kind |-> "none", chat_id |-> 0,
     reply |-> "none", then |-> "end", search_term |-> "", new_name |-> "",
     \* locals of update_pinned_directory
     messages_text |-> <<>>, current_pinned |-> 0, n_profiles |-> 0,
     i |-> 0, last_msg |-> 0,
     \* what the handler has done so far
     rc |-> "none", edit |-> "none", pin |-> "none", sent |-> <<>>,
     pinned |-> <<>>, ledger0 |-> <<>>, raised |-> FALSE, exported |-> FALSE,
     replies |-> <<>>, was_in_sync |-> FALSE, after_partial |-> FALSE,
     conflict |-> FALSE,   \* the npub posted is held by another user's row
     from_user |-> 0,      \* the sender of a consent command or callback
     member |-> "none"]    \* what get_chat_member gave: "admin", "member",
                           \* "BadRequest" or "error"

\* init_db() on a fresh database, under one of the configurations
InitWith(allowed) ==
    /\ ALLOWED_CHAT_ID \in allowed
    /\ profiles = <<>>
    /\ pinned_messages = <<>>
    /\ channel = <<>>
    /\ pins = {}
    /\ web_json = export_web_json(<<>>)
    /\ h = [p \in Tasks |-> Idle]
    /\ in_sync = {}
    /\ partial = {}

\* an exception leaves the handler: the application logs it and goes on
Raised(hr) ==
    [hr EXCEPT !.raised = TRUE, !.pc = "done",
               !.rc = IF hr.rc = "running" THEN "raised" ELSE hr.rc]

\* update_pinned_directory returns: the handler calls save_web_json() and,
\* in cmd_directorio, replies
Returned(hr) ==
    [hr EXCEPT !.rc = "returned", !.exported = TRUE,
               !.pc = IF hr.kind = "directorio" THEN "reply" ELSE "done",
               !.reply = IF hr.kind = "directorio" THEN "refreshed" ELSE hr.reply,
               !.then = "end"]

\* faulty variant: the loop does not skip the text the current message was edited to
EnterLoop_no_skip(hr) == [hr EXCEPT !.pc = "send", !.i = 0]

\* the for loop of update_pinned_directory up to its first send_message, or,
\* when it sends nothing, the code after it.  With last_msg = None the branch
\* `elif not current_pinned` is taken only without a current entry; then the
\* loop has sent messages_text[0], so that branch never runs.
EnterLoop(hr) ==
    LET first == IF hr.current_pinned # 0 THEN 1 ELSE 0
    IN  IF first < Len(hr.messages_text)
        THEN [hr EXCEPT !.pc = "send", !.i = first]
        ELSE Returned(hr)

\* update_pinned_directory up to its first await
BeginReconcile(hr, P, L) ==
    LET text == build_directory_messages(get_all_profiles(P))
        cur  == get_current_pinned(L, hr.chat_id)
        base == [hr EXCEPT !.messages_text = text, !.current_pinned = cur,
                           !.n_profiles = Len(P), !.rc = "running",
                           !.ledger0 = L, !.i = 0, !.last_msg = 0,
                           !.was_in_sync = hr.chat_id \in in_sync,
                           !.after_partial = hr.chat_id \in partial]
    IN  IF Len(text) = 1 /\ cur # 0 THEN [base EXCEPT !.pc = "edit1"]
        ELSE IF cur # 0 /\ Len(text) > 1 THEN [base EXCEPT !.pc = "editN"]
        ELSE EnterLoop(base)

\* every transport call of the invocation succeeded ("unchanged" is the
\* transport's answer to an edit that changes nothing)
AllSucceeded(hr) ==
    /\ hr.rc = "returned"
    /\ hr.edit \in {"none", "ok", "unchanged"}
    /\ hr.pin \in {"none", "ok"}

\* the task goes on as nh; save_web_json() writes the file when the handler
\* reaches it in this step
Commit(p, nh) ==
    /\ h' = [h EXCEPT ![p] = nh]
    /\ web_json' = IF nh.exported /\ ~h[p].exported
                   THEN export_web_json(profiles') ELSE web_json
    /\ in_sync' =
          IF h[p].rc = "running" /\ nh.rc # "running"
          THEN IF AllSucceeded(nh)
                  /\ CurrentIdx(pinned_messages', nh.chat_id) # {}
               THEN in_sync \cup {nh.chat_id} ELSE in_sync \ {nh.chat_id}
          ELSE IF profiles' # profiles THEN {} ELSE in_sync
    /\ partial' =
          IF h[p].rc = "running" /\ nh.rc # "running"
          THEN IF Len(nh.sent) > 0 /\ nh.pin # "ok"
               THEN partial \cup {nh.chat_id} ELSE partial \ {nh.chat_id}
          ELSE partial

Start(kind, chat_id) ==
    [Idle EXCEPT !.kind = kind, !.chat_id = chat_id]

Replying(hr, reply, then) ==
    [hr EXCEPT !.pc = "reply", !.reply = reply, !.then = then,
               !.search_term = "", !.new_name = ""]

(***************************************************************************)
(* Handlers, up to their first await                                       *)
(***************************************************************************)
handle_message(p, chat_id, user, npub) ==
    /\ h[p].pc = "idle"
    /\ LET hr == Start("message", chat_id)
           existing == get_profile_by_user(profiles, user)
       IN  IF ALLOWED_CHAT_ID # 0 /\ chat_id # ALLOWED_CHAT_ID
           THEN /\ profiles' = profiles
                /\ Commit(p, [hr EXCEPT !.pc = "done"])
           ELSE IF existing # 0 /\ profiles[existing].npub = npub
           THEN /\ profiles' = profiles
                /\ Commit(p, Replying(hr, "already", "end"))
           ELSE IF existing # 0
           THEN IF rebind_ok(profiles, npub, user)
                THEN /\ profiles' = rebind(profiles, npub, user)
                     /\ Commit(p, Replying(hr, "updated", "reconcile"))
                ELSE /\ profiles' = profiles
                     /\ Commit(p, Raised([hr EXCEPT !.conflict = TRUE]))
           ELSE /\ profiles' = add_profile(profiles, npub, user, Username(user),
                                           FullName(user))
                /\ Commit(p, IF add_profile_ok(profiles, npub)
                             THEN Replying(hr, "added", "reconcile")
                             ELSE Replying([hr EXCEPT !.conflict = TRUE],
                                           "duplicate", "end"))
    /\ UNCHANGED <<ALLOWED_CHAT_ID, pinned_messages, channel, pins>>

cmd_borrarme(p, chat_id, user) ==
    /\ h[p].pc = "idle"
    /\ LET hr == Start("borrarme", chat_id)
           deleted == get_profile_by_user(profiles, user) # 0
       IN  /\ profiles' = remove_profile(profiles, user)
           /\ Commit(p, IF deleted
                        THEN Replying(hr, "deleted",
                                 IF ALLOWED_CHAT_ID # 0 /\ chat_id = ALLOWED_CHAT_ID
                                 THEN "reconcile" ELSE "export")
                        ELSE Replying(hr, "no_profile", "end"))
    /\ UNCHANGED <<ALLOWED_CHAT_ID, pinned_messages, channel, pins>>

cmd_websi(p, chat_id, user) ==
    /\ h[p].pc = "idle"
    /\ LET hr == [Start("websi", chat_id) EXCEPT !.from_user = user]
           updated == get_profile_by_user(profiles, user) # 0
       IN  /\ profiles' = set_web_consent(profiles, user, TRUE)
           /\ Commit(p, IF updated THEN Replying(hr, "web_yes", "export")
                        ELSE Replying(hr, "no_profile", "end"))
    /\ UNCHANGED <<ALLOWED_CHAT_ID, pinned_messages, channel, pins>>

cmd_webno(p, chat_id, user) ==
    /\ h[p].pc = "idle"
    /\ LET hr == [Start("webno", chat_id) EXCEPT !.from_user = user]
           updated == get_profile_by_user(profiles, user) # 0
       IN  /\ profiles' = set_web_consent(profiles, user, FALSE)
           /\ Commit(p, IF updated THEN Replying(hr, "web_no", "export")
                        ELSE Replying(hr, "no_profile", "end"))
    /\ UNCHANGED <<ALLOWED_CHAT_ID, pinned_messages, channel, pins>>

\* a button of the consent keyboard of target_user_id is pressed by from_user;
\* the await that follows is query.answer (alert) or query.edit_message_text
handle_consent_callback(p, from_user, target_user_id, consent) ==
    /\ h[p].pc = "idle"
    /\ LET hr == [Start("consent", 0) EXCEPT !.from_user = from_user]
       IN  IF from_user # target_user_id
           THEN /\ profiles' = profiles
                /\ Commit(p, Replying(hr, "owner_only", "end"))
           ELSE /\ profiles' = set_web_consent(profiles, target_user_id, consent)
                /\ Commit(p, Replying(hr, IF consent THEN "consent_yes"
                                          ELSE "consent_no", "export"))
    /\ UNCHANGED <<ALLOWED_CHAT_ID, pinned_messages, channel, pins>>

\* the sender of an admin command matters to get_chat_member only, whose
\* answer Check draws
cmd_renombrar(p, chat_id, search_term, new_name) ==
    /\ h[p].pc = "idle"
    /\ profiles' = profiles
    /\ Commit(p, [Start("renombrar", chat_id) EXCEPT
                     !.pc = "chk", !.search_term = search_term,
                     !.new_name = new_name])
    /\ UNCHANGED <<ALLOWED_CHAT_ID, pinned_messages, channel, pins>>

cmd_directorio(p, chat_id) ==
    /\ h[p].pc = "idle"
    /\ profiles' = profiles
    /\ Commit(p, [Start("directorio", chat_id) EXCEPT !.pc = "chk"])
    /\ UNCHANGED <<ALLOWED_CHAT_ID, pinned_messages, channel, pins>>

StartsWith(s, t) == Len(t) <= Len(s) /\ SubSeq(s, 1, Len(t)) = t

\* the search of cmd_renombrar: index of the first matching row, 0 for None
FindProfile(P, search_term) ==
    LET S == IF Head(search_term) = Head("@")
             THEN SelectIdx(P, LAMBDA r :
                      Truthy(r.telegram_username)
                      /\ r.telegram_username = Tail(search_term))
             ELSE SelectIdx(P, LAMBDA r : StartsWith(r.npub, search_term))
    IN  IF S = {} THEN 0 ELSE Min(S)

\* faulty variant: a BadRequest of get_chat_member is not let pass
Proceeds_admins_only(status) == status \in {"administrator", "creator"}

\* lines 711-717: the command goes on for an admin, and after `except
\* BadRequest: pass`
Proceeds(status) == status \in {"administrator", "creator", "BadRequest"}

\* get_chat_member returns or raises (cmd_renombrar, cmd_directorio)
Check(p) ==
    /\ h[p].pc = "chk"
    /\ \E status \in {"administrator", "creator", "member", "BadRequest", "error"} :
        LET hr == [h[p] EXCEPT !.member =
                      IF status \in {"administrator", "creator"} THEN "admin"
                      ELSE status]
            found == FindProfile(profiles, hr.search_term)
        IN  IF status = "error"
            THEN /\ profiles' = profiles
                 /\ Commit(p, Raised([hr EXCEPT !.search_term = "", !.new_name = ""]))
            ELSE IF ~Proceeds(status)
            THEN /\ profiles' = profiles
                 /\ Commit(p, Replying(hr, "admin_only", "end"))
            ELSE IF hr.kind = "directorio"
            THEN /\ profiles' = profiles
                 /\ Commit(p, BeginReconcile(hr, profiles, pinned_messages))
            ELSE IF found = 0
            THEN /\ profiles' = profiles
                 /\ Commit(p, Replying(hr, "not_found", "end"))
            ELSE /\ profiles' = set_custom_name_by_npub(profiles,
                                    profiles[found].npub,
                                    IF hr.new_name = "--reset" THEN None
                                    ELSE hr.new_name)
                 /\ Commit(p, Replying(hr, "renamed", "reconcile"))
    /\ pinned_messages' = pinned_messages
    /\ UNCHANGED <<ALLOWED_CHAT_ID, channel, pins>>

\* reply_text returns or raises
Reply(p) ==
    /\ h[p].pc = "reply"
    /\ profiles' = profiles
    /\ pinned_messages' = pinned_messages
    /\ \E outcome \in {"ok", "error"} :
        LET hr == [h[p] EXCEPT !.replies = Append(@, h[p].reply)]
        IN  IF outcome = "error" THEN Commit(p, Raised(h[p]))
            ELSE IF hr.then = "reconcile"
            THEN Commit(p, BeginReconcile(hr, profiles, pinned_messages))
            ELSE IF hr.then = "export"
            THEN Commit(p, [hr EXCEPT !.exported = TRUE, !.pc = "done"])
            ELSE Commit(p, [hr EXCEPT !.pc = "done"])
    /\ UNCHANGED <<ALLOWED_CHAT_ID, channel, pins>>

(***************************************************************************)
(* update_pinned_directory, one step per await                             *)
(***************************************************************************)
\* edit_message_text: "unchanged" is BadRequest("message is not modified"),
\* "BadRequest" any other BadRequest, "error" any other TelegramError (TimedOut,
\* NetworkError, Forbidden).  A text equal to the message's differs from it at
\* most in the minute of the rendering, so the edit may also succeed.
EditOutcomes(message_id, text) ==
    IF channel[message_id].text = text
    THEN {"ok", "unchanged", "BadRequest", "error"}
    ELSE {"ok", "BadRequest", "error"}

SendOutcomes == {"ok", "BadRequest", "error"}

PinOutcomes == {"ok", "BadRequest", "error"}

\* faulty variant: no return after the edit; the text is sent as a fresh message
AfterEdit1_send_fresh(hr, outcome) ==
    IF outcome = "unchanged" THEN Returned(hr)
    ELSE IF outcome = "error" THEN Raised(hr)
    ELSE [hr EXCEPT !.pc = "send", !.i = 0]

\* lines 316-329: the try around the edit of the only text
AfterEdit1(hr, outcome) ==
    IF outcome \in {"ok", "unchanged"} THEN Returned(hr)
    ELSE IF outcome = "BadRequest" THEN EnterLoop(hr)
    ELSE Raised(hr)

\* lines 332-341: the try around the edit to the first text
AfterEditN(hr, outcome) ==
    IF outcome \in {"ok", "unchanged", "BadRequest"} THEN EnterLoop(hr)
    ELSE Raised(hr)

\* faulty variant: last_msg keeps the first message sent
AfterSend_keeps_first(hr, outcome, message_id) ==
    IF outcome = "ok"
    THEN [hr EXCEPT !.last_msg = IF hr.last_msg = 0 THEN message_id ELSE hr.last_msg,
                    !.sent = Append(@, message_id),
                    !.i = hr.i + 1,
                    !.pc = IF hr.i + 1 < Len(hr.messages_text)
                           THEN "send" ELSE "pin"]
    ELSE Raised(hr)

\* lines 345-355: send_message is not inside a try
AfterSend(hr, outcome, message_id) ==
    IF outcome = "ok"
    THEN [hr EXCEPT !.last_msg = message_id, !.sent = Append(@, message_id),
                    !.i = hr.i + 1,
                    !.pc = IF hr.i + 1 < Len(hr.messages_text)
                           THEN "send" ELSE "pin"]
    ELSE Raised(hr)

\* lines 357-367: the try around pin_chat_message and save_pinned_message
AfterPin(hr, outcome) ==
    IF outcome = "ok"
    THEN Returned([hr EXCEPT !.pin = outcome, !.pinned = Append(@, hr.last_msg)])
    ELSE IF outcome = "BadRequest" THEN Returned([hr EXCEPT !.pin = outcome])
    ELSE Raised([hr EXCEPT !.pin = outcome])

\* faulty variant: save_pinned_message is called before pin_chat_message
LedgerAfterPin_save_first(L, hr, outcome) ==
    save_pinned_message(L, hr.chat_id, hr.last_msg, hr.n_profiles)

\* faulty variant: only the entry the invocation found is superseded
LedgerAfterPin_supersedes_found(L, hr, outcome) ==
    IF outcome = "ok"
    THEN Append([i \in 1..Len(L) |->
                    IF L[i].chat_id = hr.chat_id
                       /\ L[i].message_id = hr.current_pinned
                    THEN [L[i] EXCEPT !.is_current = FALSE] ELSE L[i]],
                [chat_id |-> hr.chat_id, message_id |-> hr.last_msg,
                 profile_count |-> hr.n_profiles, is_current |-> TRUE,
                 created_at |-> Len(L) + 1])
    ELSE L

\* the ledger after the pin returned or raised
LedgerAfterPin(L, hr, outcome) ==
    IF outcome = "ok"
    THEN save_pinned_message(L, hr.chat_id, hr.last_msg, hr.n_profiles)
    ELSE L

Edit1(p) ==
    /\ h[p].pc = "edit1"
    /\ \E outcome \in EditOutcomes(h[p].current_pinned, h[p].messages_text[1]) :
        /\ channel' = IF outcome = "ok"
                      THEN [channel EXCEPT ![h[p].current_pinned].text =
                                               h[p].messages_text[1]]
                      ELSE channel
        /\ profiles' = profiles
        /\ pinned_messages' = pinned_messages
        /\ Commit(p, AfterEdit1([h[p] EXCEPT !.edit = outcome], outcome))
    /\ UNCHANGED <<ALLOWED_CHAT_ID, pins>>

EditN(p) ==
    /\ h[p].pc = "editN"
    /\ \E outcome \in EditOutcomes(h[p].current_pinned, h[p].messages_text[1]) :
        /\ channel' = IF outcome = "ok"
                      THEN [channel EXCEPT ![h[p].current_pinned].text =
                                               h[p].messages_text[1]]
                      ELSE channel
        /\ profiles' = profiles
        /\ pinned_messages' = pinned_messages
        /\ Commit(p, AfterEditN([h[p] EXCEPT !.edit = outcome], outcome))
    /\ UNCHANGED <<ALLOWED_CHAT_ID, pins>>

Send(p) ==
    /\ h[p].pc = "send"
    /\ \E outcome \in SendOutcomes :
        /\ outcome = "ok" => Len(channel) < MaxMsgs
        /\ channel' = IF outcome = "ok"
                      THEN Append(channel,
                                  [chat_id |-> h[p].chat_id,
                                   text |-> h[p].messages_text[h[p].i + 1]])
                      ELSE channel
        /\ profiles' = profiles
        /\ pinned_messages' = pinned_messages
        /\ Commit(p, AfterSend(h[p], outcome, Len(channel) + 1))
    /\ UNCHANGED <<ALLOWED_CHAT_ID, pins>>

Pin(p) ==
    /\ h[p].pc = "pin"
    /\ \E outcome \in PinOutcomes :
        /\ pins' = IF outcome = "ok" THEN pins \cup {h[p].last_msg} ELSE pins
        /\ profiles' = profiles
        /\ pinned_messages' = LedgerAfterPin(pinned_messages, h[p], outcome)
        /\ Commit(p, AfterPin(h[p], outcome))
    /\ UNCHANGED <<ALLOWED_CHAT_ID, channel>>

Forgotten ==
    [header |-> "primary", lines |-> <<>>, tail |-> "forgotten", count |-> 0]

\* The code reads or edits no message but the one of a current ledger row, so
\* between two handlers the model keeps the text of those messages only.
Forget(C, L) ==
    [m \in 1..Len(C) |->
        IF \E i \in 1..Len(L) : L[i].is_current /\ L[i].message_id = m
        THEN C[m] ELSE [C[m] EXCEPT !.text = Forgotten]]

\* the handler is over; the application takes the next update.  The texts are
\* kept while another handler runs, which may hold the id of any message.
Finish(p) ==
    /\ h[p].pc = "done"
    /\ h' = [h EXCEPT ![p] = Idle]
    /\ channel' = IF \A q \in Tasks \ {p} : h[q].pc = "idle"
                  THEN Forget(channel, pinned_messages) ELSE channel
    /\ UNCHANGED <<ALLOWED_CHAT_ID, profiles, pinned_messages, pins, web_json,
                   in_sync, partial>>

SearchTerms == {"@alice", "npub1b"}
NewNames == {"--reset", LongName}

\* the steps every specification shares: an await of task p returns
Step(p) ==
    \/ Check(p)
    \/ Reply(p)
    \/ Edit1(p)
    \/ EditN(p)
    \/ Send(p)
    \/ Pin(p)
    \/ Finish(p)

\* Updates of one group chat, each user posting an npub of their own, the
\* bot being configured for that chat.
Group == {1}
OwnNpub(u) == IF u = 1 THEN "npub1a" ELSE "npub1b"

Init == InitWith(Group)

Next ==
    \/ \E c \in Group, u \in Users : handle_message(1, c, u, OwnNpub(u))
    \/ \E c \in Group, u \in Users : cmd_borrarme(1, c, u)
    \/ \E c \in Group, t \in SearchTerms, n \in NewNames : cmd_renombrar(1, c, t, n)
    \/ \E c \in Group : cmd_directorio(1, c)
    \/ Step(1)

Spec == Init /\ [][Next]_vars

\* Updates of two chats, under either configuration of ALLOWED_CHAT_ID.
InitChats == InitWith({0, 1})

NextChats ==
    \/ \E c \in Chats, u \in Users : handle_message(1, c, u, OwnNpub(u))
    \/ \E c \in Chats : cmd_renombrar(1, c, "@alice", LongName)
    \/ Step(1)

SpecChats == InitChats /\ [][NextChats]_vars

\* The profile store: users post npubs, also one the other holds, delete
\* themselves, change their consent; an admin gives a short custom name, so
\* the directory is one text and the edit of update_pinned_directory for
\* several texts is never reached.
Posted(u) == IF u = 1 THEN {"npub1a", "npub1c"} ELSE {"npub1a", "npub1b"}

NextStore ==
    \/ \E c \in Group, u \in Users : \E n \in Posted(u) : handle_message(1, c, u, n)
    \/ \E c \in Group, u \in Users : cmd_borrarme(1, c, u)
    \/ \E c \in Group : cmd_websi(1, c, 1)
    \/ \E c \in Group : cmd_webno(1, c, 1)
    \/ \E u \in Users : handle_consent_callback(1, u, 1, TRUE)
    \/ \E c \in Group : cmd_renombrar(1, c, "@alice", "Sat")
    \/ Check(1)
    \/ Reply(1)
    \/ Edit1(1)
    \/ Send(1)
    \/ Pin(1)
    \/ Finish(1)

SpecStore == Init /\ [][NextStore]_vars

\* Registrations, deletions and short renames in two chats, under either
\* configuration of ALLOWED_CHAT_ID.
NextDelete ==
    \/ \E c \in Chats : handle_message(1, c, 1, OwnNpub(1))
    \/ \E c \in Chats : cmd_borrarme(1, c, 1)
    \/ \E c \in Chats : cmd_renombrar(1, c, "@alice", "Sat")
    \/ Check(1)
    \/ Reply(1)
    \/ Edit1(1)
    \/ Send(1)
    \/ Pin(1)
    \/ Finish(1)

SpecDelete == InitChats /\ [][NextDelete]_vars

\* Consent: users register and delete themselves, issue /websi and /webno, and
\* press the buttons of their own and of the other's consent keyboard.
NextConsent ==
    \/ \E c \in Group, u \in Users : handle_message(1, c, u, OwnNpub(u))
    \/ \E c \in Group, u \in Users : cmd_borrarme(1, c, u)
    \/ \E c \in Group, u \in Users : cmd_websi(1, c, u)
    \/ \E c \in Group, u \in Users : cmd_webno(1, c, u)
    \/ \E u, t \in Users, consent \in BOOLEAN :
          handle_consent_callback(1, u, t, consent)
    \/ Reply(1)
    \/ Edit1(1)
    \/ Send(1)
    \/ Pin(1)
    \/ Finish(1)

SpecConsent == Init /\ [][NextConsent]_vars

\* Two handlers at once (an application built with concurrent updates): both
\* tasks run /directorio for the group, their awaits interleaved.
NextConcurrent ==
    \E p \in Tasks :
        \/ \E c \in Group : cmd_directorio(p, c)
        \/ Check(p)
        \/ Reply(p)
        \/ Edit1(p)
        \/ Send(p)
        \/ Pin(p)
        \/ Finish(p)

SpecConcurrent == Init /\ [][NextConcurrent]_vars

\* The renderer on its own: any rows in the table profiles (an admin may have
\* given any of them a custom name of any length a command carries; a user
\* may have no username and an empty first name), and the call
\* build_directory_messages(get_all_profiles(), chat_id).
CustomNames == {None, "Sat", LongName, HugeName}
RowNpub(i) == "npub1" \o SubSeq("abcdefgh", i, i)

RowsAt(i) ==
    [npub : {RowNpub(i)}, telegram_user_id : {i},
     telegram_username : {None, "alice"}, telegram_name : {"", "Bob"},
     web_consent : {FALSE}, custom_name : CustomNames]

InsertRow(p) ==
    /\ Len(profiles) < MaxRows
    /\ \E r \in RowsAt(Len(profiles) + 1) : profiles' = Append(profiles, r)
    /\ h' = [h EXCEPT ![p] = Idle]
    /\ UNCHANGED <<ALLOWED_CHAT_ID, pinned_messages, channel, pins, web_json,
                   in_sync, partial>>

Render(p) ==
    /\ h[p].kind = "none"
    /\ h' = [h EXCEPT ![p] =
                [Idle EXCEPT !.kind = "render",
                             !.messages_text =
                                 build_directory_messages(get_all_profiles(profiles)),
                             !.n_profiles = Len(profiles)]]
    /\ UNCHANGED <<ALLOWED_CHAT_ID, profiles, pinned_messages, channel, pins,
                   web_json, in_sync, partial>>

NextRender ==
    \/ InsertRow(1)
    \/ Render(1)

SpecRender == Init /\ [][NextRender]_vars

\* The exporter on its own: any rows in the table profiles, with or without
\* consent, and the call save_web_json().
ConsentRowsAt(i) ==
    [npub : {RowNpub(i)}, telegram_user_id : {i},
     telegram_username : {None, "alice"}, telegram_name : {"Bob"},
     web_consent : BOOLEAN, custom_name : {None, "Sat"}]

InsertConsentRow(p) ==
    /\ Len(profiles) < MaxRows
    /\ \E r \in ConsentRowsAt(Len(profiles) + 1) : profiles' = Append(profiles, r)
    /\ h' = [h EXCEPT ![p] = Idle]
    /\ UNCHANGED <<ALLOWED_CHAT_ID, pinned_messages, channel, pins, web_json,
                   in_sync, partial>>

save_web_json(p) ==
    /\ h[p].kind = "none"
    /\ h' = [h EXCEPT ![p] = [Idle EXCEPT !.kind = "export", !.exported = TRUE]]
    /\ web_json' = export_web_json(profiles)
    /\ UNCHANGED <<ALLOWED_CHAT_ID, profiles, pinned_messages, channel, pins,
                   in_sync, partial>>

NextExport ==
    \/ InsertConsentRow(1)
    \/ save_web_json(1)

SpecExport == Init /\ [][NextExport]_vars

(***************************************************************************)
(* Properties of update_pinned_directory.  An invocation of task p is      *)
(* described by h[p]: rc tells whether it runs, returned or raised; edit   *)
(* and pin are the outcomes of its edit and pin calls; sent and pinned are *)
(* the messages it sent and pinned, in order; ledger0 is the ledger it     *)
(* found.                                                                  *)
(***************************************************************************)
N(p) == Len(h[p].messages_text)

Over(p) == h[p].rc \in {"returned", "raised"}

LastSent(p) == h[p].sent[Len(h[p].sent)]

\* the messages sent carry the texts from index `first` on, in order
SentCarry(p, first) ==
    /\ Len(h[p].sent) = N(p) - first
    /\ \A k \in 1..Len(h[p].sent) :
          /\ h[p].sent[k] \in 1..Len(channel)
          /\ channel[h[p].sent[k]].chat_id = h[p].chat_id
          /\ channel[h[p].sent[k]].text = h[p].messages_text[first + k]
          /\ k > 1 => h[p].sent[k - 1] < h[p].sent[k]

\* C1: with one text and a current entry, an edit rejected for another reason
\* than "not modified" makes the invocation send the text as a new message,
\* pin it and record it as the current entry.
C1_RejectedEditSendsFresh ==
    \A p \in Tasks :
        (h[p].rc = "returned" /\ N(p) = 1 /\ h[p].current_pinned # 0
         /\ h[p].edit = "BadRequest")
        => /\ SentCarry(p, 0)
           /\ h[p].pin = "ok" =>
                 get_current_pinned(pinned_messages, h[p].chat_id) = LastSent(p)

\* C2 (as claimed): a second invocation on the same profile list, the current
\* entry being the one the first left, sends nothing and pins nothing,
\* whatever the number of texts.
C2_IdempotentAnyN ==
    \A p \in Tasks :
        (h[p].rc # "none" /\ h[p].was_in_sync)
        => h[p].sent = <<>> /\ h[p].pinned = <<>>

\* C2 (amended): a second invocation on the same profile list, the current
\* entry being the one the first left, sends nothing and pins nothing when the
\* list renders to exactly one text.
C2_IdempotentOneChunk ==
    \A p \in Tasks :
        (h[p].rc # "none" /\ h[p].was_in_sync /\ N(p) = 1)
        => h[p].sent = <<>> /\ h[p].pinned = <<>> /\ h[p].pc # "send"

C2_Witness ==
    \E p \in Tasks :
        /\ h[p].rc = "returned" /\ h[p].was_in_sync /\ N(p) = 1
        /\ h[p].edit = "unchanged"

\* C3: with one text and a current entry, an edit that succeeds or reports
\* "not modified" ends the invocation: nothing is sent, nothing is pinned, and
\* the ledger is as it was, the same entry current.
C3_EditInPlaceFrame ==
    \A p \in Tasks :
        (h[p].rc # "none" /\ N(p) = 1 /\ h[p].current_pinned # 0
         /\ h[p].edit \in {"ok", "unchanged"})
        => /\ h[p].rc = "returned"
           /\ h[p].sent = <<>> /\ h[p].pinned = <<>>
           /\ pinned_messages = h[p].ledger0
           /\ get_current_pinned(pinned_messages, h[p].chat_id) = h[p].current_pinned
           /\ channel[h[p].current_pinned].text = h[p].messages_text[1]

\* the list shrank: the current entry was recorded for two profiles, and an
\* older entry lies behind it
C3_Witness ==
    \E p \in Tasks :
        /\ h[p].rc = "returned" /\ N(p) = 1 /\ h[p].edit = "ok"
        /\ h[p].n_profiles = 1
        /\ Len(pinned_messages) = 2
        /\ pinned_messages[2].is_current /\ pinned_messages[2].profile_count = 2
        /\ pinned_messages[2].message_id = h[p].current_pinned

\* the rows of L0 current in L0 and no longer in L
Flipped(L0, L) ==
    {i \in 1..Len(L0) : L0[i].is_current /\ ~L[i].is_current}

\* C4: with N > 1 texts and a current entry, when the sends and the pin
\* succeed, whatever the edit gave: N-1 messages are sent, carrying texts
\* 1..N-1 in order; the one pin is of the last; the current entry references
\* the last, and exactly the formerly current entry is no longer current.
C4_ChainWithCurrent ==
    \A p \in Tasks :
        (h[p].rc = "returned" /\ N(p) > 1 /\ h[p].current_pinned # 0
         /\ h[p].pin = "ok")
        => /\ h[p].edit \in {"ok", "unchanged", "BadRequest"}
           /\ SentCarry(p, 1)
           /\ h[p].pinned = <<LastSent(p)>>
           /\ Len(pinned_messages) = Len(h[p].ledger0) + 1
           /\ get_current_pinned(pinned_messages, h[p].chat_id) = LastSent(p)
           /\ Cardinality(Flipped(h[p].ledger0, pinned_messages)) = 1
           /\ \A i \in Flipped(h[p].ledger0, pinned_messages) :
                 h[p].ledger0[i].message_id = h[p].current_pinned

C4_Witness ==
    \E p \in Tasks :
        /\ h[p].rc = "returned" /\ N(p) > 1 /\ h[p].current_pinned # 0
        /\ h[p].pin = "ok" /\ h[p].edit = "BadRequest"

\* C5: without a current entry, when every call succeeds: the N texts are sent
\* in order, each send after the one before returned; the one pin comes after
\* the last send and is of the last message; one entry is appended, current,
\* referencing that message, with the number of profiles rendered.
C5_FreshChain ==
    \A p \in Tasks :
        /\ (h[p].rc = "running" /\ h[p].current_pinned = 0)
           => /\ h[p].pc = "send" => Len(h[p].sent) = h[p].i /\ h[p].i < N(p)
              /\ h[p].pc = "pin" => Len(h[p].sent) = N(p)
              /\ h[p].pinned = <<>>
        /\ (h[p].rc = "returned" /\ h[p].current_pinned = 0 /\ h[p].pin = "ok")
           => /\ SentCarry(p, 0)
              /\ h[p].pinned = <<LastSent(p)>>
              /\ pinned_messages =
                    Append(h[p].ledger0,
                           [chat_id |-> h[p].chat_id, message_id |-> LastSent(p),
                            profile_count |-> Len(profiles), is_current |-> TRUE,
                            created_at |-> Len(h[p].ledger0) + 1])

C5_Witness ==
    \E p \in Tasks :
        /\ h[p].rc = "returned" /\ h[p].current_pinned = 0 /\ h[p].pin = "ok"
        /\ N(p) = 2 /\ Len(profiles) = 2

PinFailed(p) == Len(h[p].sent) > 0 /\ h[p].pin \in {"BadRequest", "error"}

\* C6 (as claimed): when the pin fails after messages were sent, the ledger
\* write is kept: the current entry references the newly sent message.
C6_LedgerRecordsUnpinned ==
    \A p \in Tasks :
        (Over(p) /\ PinFailed(p))
        => get_current_pinned(pinned_messages, h[p].chat_id) = LastSent(p)

\* C6 (amended): when the pin fails after messages were sent, the messages stay
\* in the channel and no ledger write is made: the ledger is as the invocation
\* found it, and no entry references a message it sent.
C6_PinFailureLeavesLedger ==
    \A p \in Tasks :
        (Over(p) /\ PinFailed(p))
        => /\ pinned_messages = h[p].ledger0
           /\ h[p].pinned = <<>>
           /\ \A k \in 1..Len(h[p].sent) :
                 /\ h[p].sent[k] \in 1..Len(channel)
                 /\ channel[h[p].sent[k]].text \in
                       {h[p].messages_text[j] : j \in 1..N(p)}
                 /\ \A i \in 1..Len(pinned_messages) :
                       pinned_messages[i].message_id # h[p].sent[k]

C6_Witness ==
    \E p \in Tasks :
        /\ h[p].rc = "returned" /\ PinFailed(p) /\ h[p].current_pinned # 0

\* C7: the invocation after one that sent messages and pinned none, when all
\* its transport calls succeed, ends with a current entry whose message was
\* pinned and carries the last text of the rendering.
C7_SelfHeal ==
    \A p \in Tasks :
        (h[p].after_partial /\ AllSucceeded(h[p]))
        => LET cur == get_current_pinned(pinned_messages, h[p].chat_id)
           IN  /\ cur # 0
               /\ cur \in pins
               /\ channel[cur].chat_id = h[p].chat_id
               /\ channel[cur].text = h[p].messages_text[N(p)]

C7_Witness ==
    \E p \in Tasks :
        /\ h[p].after_partial /\ AllSucceeded(h[p])
        /\ h[p].pin = "ok" /\ h[p].current_pinned # 0

\* C8: no failure of a send, an edit or a pin leaves update_pinned_directory:
\* the handler goes on and exports.
C8_FailuresContained ==
    \A p \in Tasks :
        /\ h[p].rc # "raised"
        /\ (h[p].pc = "done" /\ h[p].rc # "none") => h[p].exported

\* C9: the ledger holds at most one current entry per chat.
C9_OneCurrentPerChat ==
    \A c \in Chats : Cardinality(CurrentIdx(pinned_messages, c)) <= 1

\* both chats have a current entry, and the last invocation of one of them
\* failed partway
C9_Witness ==
    /\ \A c \in Chats : CurrentIdx(pinned_messages, c) # {}
    /\ partial # {}

\* C10: the ledger is append-only: no row goes away or changes but in
\* is_current, which only goes from true to false, and only in a step that
\* appends a row for the same chat.
C10_Step ==
    /\ Len(pinned_messages') >= Len(pinned_messages)
    /\ \A i \in 1..Len(pinned_messages) :
          /\ pinned_messages'[i] \in
                {pinned_messages[i], [pinned_messages[i] EXCEPT !.is_current = FALSE]}
          /\ pinned_messages'[i] # pinned_messages[i]
             => /\ Len(pinned_messages') = Len(pinned_messages) + 1
                /\ pinned_messages'[Len(pinned_messages')].chat_id =
                      pinned_messages[i].chat_id
                /\ pinned_messages'[Len(pinned_messages')].is_current

C10_AppendOnly == [][C10_Step]_vars

\* an entry was superseded while the other chat kept its current entry
C10_Witness ==
    /\ Len(pinned_messages) = 3
    /\ \E i, j, k \in 1..3 :
          /\ i < j
          /\ pinned_messages[i].chat_id = pinned_messages[j].chat_id
          /\ ~pinned_messages[i].is_current /\ pinned_messages[j].is_current
          /\ pinned_messages[k].chat_id # pinned_messages[i].chat_id
          /\ pinned_messages[k].is_current

(***************************************************************************)
(* Properties of the renderer                                              *)
(***************************************************************************)
Rendered(p) == h[p].kind = "render"

\* C11: every message build_directory_messages returns is at most
\* MAX_MSG_LENGTH long, header, joined lines and footer or chain note counted,
\* whatever the length of a line.
C11_ChunksFit ==
    \A p \in Tasks :
        Rendered(p) =>
            \A k \in 1..N(p) : MsgLen(h[p].messages_text[k]) <= MAX_MSG_LENGTH

RECURSIVE AllLines(_)
\* the profile lines of the messages, in order
AllLines(messages) ==
    IF Len(messages) = 0 THEN <<>>
    ELSE Head(messages).lines \o AllLines(Tail(messages))

\* C12: the profile lines of the messages, read in order, are the profiles of
\* the list in its order, each once, the line of the i-th profile numbered i.
C12_LinesAreTheList ==
    \A p \in Tasks :
        Rendered(p) =>
            LET lines == AllLines(h[p].messages_text)
            IN  /\ Len(lines) = Len(profiles)
                /\ \A i \in 1..Len(lines) :
                      /\ lines[i].idx = i
                      /\ lines[i].npub = profiles[i].npub

\* a list of three rendered to three messages
C12_Witness ==
    \E p \in Tasks :
        /\ Rendered(p) /\ N(p) = 3 /\ Len(profiles) = 3
        /\ Len(h[p].messages_text[2].lines) = 1

\* C18: the name shown for a row is custom_name when set, whatever the
\* username and name; else "@" and the username when there is one; else the
\* name when there is one; else the placeholder.
C18_NamePrecedence ==
    \A p \in Tasks :
        Rendered(p) =>
            LET lines == AllLines(h[p].messages_text)
            IN  \A i \in 1..Len(lines) :
                  LET r == profiles[i]
                      custom == r.custom_name \notin {None, ""}
                      handle == r.telegram_username \notin {None, ""}
                      name == r.telegram_name \notin {None, ""}
                  IN  /\ custom => lines[i].display = r.custom_name
                      /\ (~custom /\ handle)
                         => lines[i].display = "@" \o r.telegram_username
                      /\ (~custom /\ ~handle /\ name)
                         => lines[i].display = r.telegram_name
                      /\ (~custom /\ ~handle /\ ~name)
                         => lines[i].display = "Anónimo"

\* the four cases in one list: a custom name over a username, a username, a
\* name alone, nothing
C18_Witness ==
    \E p \in Tasks :
        /\ Rendered(p)
        /\ \E i, j, k \in 1..Len(profiles) :
              /\ profiles[i].custom_name = "Sat"
              /\ profiles[i].telegram_username = "alice"
              /\ profiles[j].custom_name = None
              /\ profiles[j].telegram_username = "alice"
              /\ profiles[k].custom_name = None
              /\ profiles[k].telegram_username = None
        /\ \E i \in 1..Len(profiles) :
              /\ AllLines(h[p].messages_text)[i].display = "Anónimo"

\* C19: for a list of no profile build_directory_messages returns exactly one
\* message, made of the placeholder text and the count of zero; an invocation
\* of update_pinned_directory on it takes a path of one text: the edit of the
\* current message, or one send.
C19_EmptyListOneChunk ==
    \A p \in Tasks :
        (h[p].rc # "none" /\ h[p].n_profiles = 0)
        => /\ N(p) = 1
           /\ h[p].messages_text[1].tail = "empty"
           /\ h[p].messages_text[1].count = 0
           /\ h[p].messages_text[1].lines = <<>>
           /\ h[p].pc # "editN"
           /\ Len(h[p].sent) <= 1
           /\ h[p].current_pinned # 0 => h[p].sent = <<>>

\* the only profile was deleted and the current message edited to the
\* placeholder
C19_Witness ==
    \E p \in Tasks :
        /\ h[p].rc = "returned" /\ h[p].n_profiles = 0
        /\ h[p].kind = "borrarme" /\ h[p].edit = "ok"
        /\ channel[h[p].current_pinned].text = EmptyDirectory

\* C20: after an invocation with N > 1 texts and a current entry whose sends
\* and pin succeeded, every text is the content of a message of the chat: the
\* first of the formerly current message, the others of the messages sent;
\* also when the edit to the first text was rejected.
C20_AllChunksShown ==
    \A p \in Tasks :
        (h[p].rc = "returned" /\ N(p) > 1 /\ h[p].current_pinned # 0
         /\ h[p].pin = "ok")
        => /\ channel[h[p].current_pinned].text = h[p].messages_text[1]
           /\ SentCarry(p, 1)

(***************************************************************************)
(* Properties of the handlers and the profile store                        *)
(***************************************************************************)
\* the replies that tell of a change of what the directory shows
Mutations == {"added", "updated", "renamed", "deleted"}

\* C13: a handler that changed what the directory shows (registration, new
\* npub, rename or reset, deletion) invokes update_pinned_directory before it
\* ends, whether ALLOWED_CHAT_ID is set or not and whatever the chat of the
\* update.
C13_MutationReconciles ==
    \A p \in Tasks :
        (h[p].pc = "done" /\ ~h[p].raised /\ h[p].reply \in Mutations)
        => h[p].rc # "none"

\* C14: the document save_web_json writes lists the rows of the table whose
\* web_consent is set at that moment, all of them and no other, in the order
\* of registration, and total_profiles is the number of rows listed.
C14_ExportIsConsented ==
    \A p \in Tasks :
        h[p].exported =>
            LET W == web_json.profiles
            IN  /\ web_json.total_profiles = Len(W)
                /\ \A k \in 1..Len(W) :
                      \E i \in 1..Len(profiles) :
                          profiles[i].npub = W[k].npub /\ profiles[i].web_consent
                /\ \A i \in 1..Len(profiles) :
                      profiles[i].web_consent
                      => \E k \in 1..Len(W) : W[k].npub = profiles[i].npub
                /\ \A k1, k2 \in 1..Len(W) :
                      k1 < k2 =>
                        \E i1, i2 \in 1..Len(profiles) :
                            /\ i1 < i2
                            /\ profiles[i1].npub = W[k1].npub
                            /\ profiles[i2].npub = W[k2].npub

\* two of three rows consented, the one between them not
C14_Witness ==
    \E p \in Tasks :
        /\ h[p].exported /\ h[p].kind = "export"
        /\ Len(profiles) = 3
        /\ profiles[1].web_consent /\ ~profiles[2].web_consent
        /\ profiles[3].web_consent
        /\ web_json.total_profiles = 2

\* C15: when the npub posted is held by another user's row, the sender is
\* sent the rejection, the table profiles is unchanged and
\* update_pinned_directory is not invoked; both when the sender has no row
\* and when the sender has a row with another npub.
C15_Step ==
    \A p \in Tasks :
        h'[p].conflict
        => /\ profiles' = profiles
           /\ h'[p].rc = "none"
           /\ h'[p].reply = "duplicate"

C15_DuplicateRejected == [][C15_Step]_vars

\* the rows of one user before and after a step
SameOwner(i, j) == profiles[i].telegram_user_id = profiles'[j].telegram_user_id

\* C16: the npub of a row changes only when its owner posts another npub, and
\* then nothing else of the row changes: custom_name, web_consent, the owner
\* and the place in the order of registration are as before; no other step
\* changes the npub or that place of a row that stays.
C16_Step ==
    /\ \A i \in 1..Len(profiles), j \in 1..Len(profiles') :
          SameOwner(i, j)
          => /\ profiles'[j].npub # profiles[i].npub
                => /\ h[1].pc = "idle"
                   /\ h'[1].kind = "message" /\ h'[1].reply = "updated"
                   /\ profiles'[j] = [profiles[i] EXCEPT !.npub = profiles'[j].npub]
                   /\ Len(profiles') = Len(profiles) /\ i = j
                   /\ \A k \in 1..Len(profiles) : k # i => profiles'[k] = profiles[k]
             /\ h'[1].reply = "updated" /\ h[1].pc = "idle"
                => \/ profiles'[j] = profiles[i]
                   \/ profiles'[j] = [profiles[i] EXCEPT !.npub = profiles'[j].npub]
    /\ \A i1, i2 \in 1..Len(profiles), j1, j2 \in 1..Len(profiles') :
          (SameOwner(i1, j1) /\ SameOwner(i2, j2) /\ i1 < i2) => j1 < j2

C16_RebindChangesTokenOnly == [][C16_Step]_vars

\* the first of two rows, renamed and consented, has a new npub
C16_Witness ==
    /\ h[1].reply = "updated" /\ h[1].kind = "message"
    /\ Len(profiles) = 2
    /\ profiles[1].npub = "npub1c" /\ profiles[1].custom_name = "Sat"
    /\ profiles[1].web_consent

\* C17: the table profiles holds at most one row per user and at most one row
\* per npub.
C17_OnePerOwnerAndToken ==
    \A i, j \in 1..Len(profiles) :
        i # j => /\ profiles[i].telegram_user_id # profiles[j].telegram_user_id
                 /\ profiles[i].npub # profiles[j].npub

\* two rows, the owner of one having posted the npub of the other
C17_Witness ==
    /\ Len(profiles) = 2
    /\ h[1].conflict /\ h[1].kind = "message"

\* C24: for a list that is not empty, every message build_directory_messages
\* returns holds at least one profile line, also when the first line of a
\* message does not fit on its own.
C24_NoChunkWithoutLine ==
    \A p \in Tasks :
        (Rendered(p) /\ h[p].n_profiles > 0)
        => \A k \in 1..N(p) : Len(h[p].messages_text[k].lines) > 0

\* the npubs web_json lists, and those of the rows with consent, in order
Listed == [k \in 1..Len(web_json.profiles) |-> web_json.profiles[k].npub]

Consented ==
    LET W == SelectSeq(profiles, LAMBDA r : r.web_consent)
    IN  [k \in 1..Len(W) |-> W[k].npub]

\* the replies of the handlers that changed the table profiles
StoreChanges ==
    Mutations \cup {"web_yes", "web_no", "consent_yes", "consent_no"}

\* C21: when a handler that changed the table profiles is over, whether it
\* returned or a call of it raised, data/directorio.json lists exactly the
\* rows that have web_consent.
C21_ExportFollowsStore ==
    \A p \in Tasks :
        (h[p].pc = "done" /\ h[p].reply \in StoreChanges) => Listed = Consented

\* the user has a row in P
HasRow(P, user_id) == get_profile_by_user(P, user_id) # 0

\* C22: web_consent of a row is false when the row is created, and it changes
\* only in /websi, /webno or the consent callback of the row's own user; a
\* consent button pressed by another user leaves the table unchanged and the
\* JSON is not exported.
C22_Step ==
    /\ \A j \in 1..Len(profiles') :
          ~HasRow(profiles, profiles'[j].telegram_user_id)
          => ~profiles'[j].web_consent
    /\ \A i \in 1..Len(profiles), j \in 1..Len(profiles') :
          (SameOwner(i, j) /\ profiles'[j].web_consent # profiles[i].web_consent)
          => \E p \in Tasks :
                /\ h[p].pc = "idle"
                /\ h'[p].kind \in {"websi", "webno", "consent"}
                /\ h'[p].from_user = profiles[i].telegram_user_id
    /\ \A p \in Tasks :
          h'[p].reply = "owner_only"
          => /\ profiles' = profiles
             /\ web_json' = web_json
             /\ ~h'[p].exported

C22_ConsentByOwnerOnly == [][C22_Step]_vars

\* one user consented, the other did not, and a button is pressed by the user
\* it was not made for
C22_Witness ==
    \E p \in Tasks :
        /\ h[p].reply = "owner_only" /\ h[p].pc = "done"
        /\ Len(profiles) = 2
        /\ profiles[1].web_consent /\ ~profiles[2].web_consent

\* C23: also when two invocations of update_pinned_directory for one chat
\* interleave at their awaits, the ledger holds exactly one current entry for
\* every chat it has an entry of, and none for the others.
C23_OneCurrentInterleaved ==
    \A c \in Chats :
        LET rows == {i \in 1..Len(pinned_messages) : pinned_messages[i].chat_id = c}
            current == {i \in rows : pinned_messages[i].is_current}
        IN  Cardinality(current) = IF rows = {} THEN 0 ELSE 1

\* both invocations found no current entry, sent a message and pinned it: the
\* entry of the first to pin is no longer current
C23_Witness ==
    /\ \A p \in Tasks :
          /\ h[p].rc = "returned" /\ h[p].pin = "ok"
          /\ h[p].current_pinned = 0 /\ Len(h[p].sent) = 1
    /\ Len(pinned_messages) = 2
    /\ ~pinned_messages[1].is_current /\ pinned_messages[2].is_current
    /\ pinned_messages[1].message_id # pinned_messages[2].message_id

\* the admin command went on past the check of the sender
Proceeded(hr) ==
    IF hr.kind = "directorio" THEN hr.rc # "none"
    ELSE hr.reply \in {"renamed", "not_found"}

\* the command of a sender who is no admin changes nothing
RefusedStep(p) ==
    h'[p].member = "member"
    => /\ h'[p].reply = "admin_only"
       /\ h'[p].rc = "none" /\ ~h'[p].exported
       /\ UNCHANGED <<profiles, pinned_messages, channel, pins, web_json>>

\* C25 (as claimed): /renombrar and /directorio of a sender whose status is
\* neither administrator nor creator change nothing; when get_chat_member
\* fails, whatever the failure, the command goes on as for an admin.
C25_AnyFailureStep ==
    \A p \in Tasks :
        /\ RefusedStep(p)
        /\ h'[p].member \in {"BadRequest", "error"} => Proceeded(h'[p])

C25_BadRequestStep ==
    \A p \in Tasks :
        /\ RefusedStep(p)
        /\ h'[p].member = "BadRequest" => Proceeded(h'[p])
        /\ h'[p].member = "error"
           => /\ h'[p].raised /\ h'[p].rc = "none" /\ h'[p].replies = <<>>
              /\ UNCHANGED <<profiles, pinned_messages, channel, pins, web_json>>

====
